---------------------------- MODULE Spec2Model ----------------------------
(***************************************************************************)
(* Model of Arc-event-alerts: event_digest.py (fetch the event-timer API,  *)
(* extract occurrences, build the digest, post it when its hash changed)   *)
(* and harvester_check.py (alert when the Harvester event turns active).   *)
(* Both programs keep their state in the same file, state.json.            *)
(*                                                                         *)
(* JSON values are tagged tuples, the tag first:                           *)
(*   <<"null">>  <<"str", s>>  <<"num", n>>  <<"numk", k>>  <<"bool", b>>  *)
(*   <<"list", seq>>  <<"dict", f>>   (f a function from key strings)      *)
(* <<"numk", k>> is the number k * 1000, for magnitudes beyond the width   *)
(* of the model's integers (epoch milliseconds).  Instants are whole       *)
(* seconds since the epoch; an optional instant (Python's None or a        *)
(* datetime) is the sequence <<>> or <<t>>.                                *)
(***************************************************************************)
EXTENDS Integers, Sequences, FiniteSets, TLC

VARIABLES
    stateFile,    \* state.json: <<"missing">>, <<"corrupt">> or <<"dict", f>>
    digestPosts,  \* the digests delivered to the webhook, oldest first
    clock,        \* the wall clock: no run reads an instant before it
    lastDigest,   \* the most recent run of event_digest.main
    lastHarv,     \* the most recent run of harvester_check.main
    lastProc,     \* which of the two programs ran last
    arg,          \* the input of a function applied on its own
    res,          \* its result
    fn            \* which function, and whether it has been applied

vars == <<stateFile, digestPosts, clock, lastDigest, lastHarv, lastProc, arg, res, fn>>

runVars == <<stateFile, digestPosts, clock, lastDigest, lastHarv, lastProc>>

---------------------------------------------------------------------------
(* JSON values and the Python operations the programs apply to them *)

Null == <<"null">>

Str(s) == <<"str", s>>

Num(n) == <<"num", n>>

NumK(k) == <<"numk", k>>

Bool(b) == <<"bool", b>>

List(seq) == <<"list", seq>>

Dict(f) == <<"dict", f>>

IsNone(v) == v[1] = "null"

IsDict(v) == v[1] = "dict"

IsList(v) == v[1] = "list"

\* dict.get(k): the value, or None when the key is absent
Get(d, k) == IF k \in DOMAIN d THEN d[k] ELSE Null

\* dict.get(k, default)
GetDefault(d, k, default) == IF k \in DOMAIN d THEN d[k] ELSE default

\* Python truth value of a JSON value
Truthy(v) ==
    CASE v[1] = "null" -> FALSE
      [] v[1] = "str"  -> v[2] # ""
      [] v[1] = "num"  -> v[2] # 0
      [] v[1] = "numk" -> v[2] # 0
      [] v[1] = "bool" -> v[2]
      [] v[1] = "list" -> Len(v[2]) > 0
      [] v[1] = "dict" -> DOMAIN v[2] # {}
      [] OTHER         -> TRUE

\* Python's  a or b
Or(a, b) == IF Truthy(a) THEN a ELSE b

\* str(v): a string is itself; any other value becomes the text of its repr,
\* which is no field value of the payloads modelled here
PyStr(v) == IF v[1] = "str" THEN v ELSE <<"str_of", v>>

\* a whole-record replacement: the other keys of the dict are lost
SetItemReplacingRecord(d, k, v) == [x \in {k} |-> v]

\* state[k] = v
SetItem(d, k, v) == [x \in DOMAIN d \cup {k} |-> IF x = k THEN v ELSE d[x]]

---------------------------------------------------------------------------
(* Time Parser: parse_dt, to_local, fmt_local_time, fmt_in *)

\* val > 1_000_000_000_000, for a number given in thousands
EpochMsThresholdK == 1000000000

\* s.strip() followed by the replacement of a trailing "Z" by "+00:00"
TolerateZ(s) ==
    CASE s = "1970-01-01T22:00:00Z"   -> "1970-01-01T22:00:00+00:00"
      [] s = " 1970-01-01T23:30:00Z " -> "1970-01-01T23:30:00+00:00"
      [] s = "1970-01-02T01:00:00Z"   -> "1970-01-02T01:00:00+00:00"
      [] s = "garbageZ"               -> "garbage+00:00"
      [] OTHER                        -> s

\* datetime.fromisoformat, made aware (a naive value is taken as UTC) and
\* converted to UTC; <<>> when fromisoformat raises
FromIsoFormatUtc(s) ==
    CASE s = "1970-01-01T22:00:00+00:00" -> <<79200>>
      [] s = "1970-01-01T22:00:00"       -> <<79200>>
      [] s = "1970-01-01T23:30:00+00:00" -> <<84600>>
      [] s = "1970-01-02T00:30:00+01:00" -> <<84600>>
      [] s = "1970-01-02T01:00:00+00:00" -> <<90000>>
      [] OTHER                           -> <<>>

parse_dt(val) ==
    CASE val[1] = "null" -> <<>>
      [] val[1] = "num"  -> <<val[2]>>
      [] val[1] = "numk" -> IF val[2] > EpochMsThresholdK
                              THEN <<val[2]>>
                              ELSE <<val[2] * 1000>>
      [] val[1] = "bool" -> <<IF val[2] THEN 1 ELSE 0>>
      [] val[1] = "str"  -> FromIsoFormatUtc(TolerateZ(val[2]))
      [] OTHER           -> <<>>

\* UTC offset of America/Chicago, in seconds, for the instants of the model
\* (January 1970: CST; April to October 2001: CDT)
ChicagoIsDst(t) == t >= 986112000 /\ t < 1004252400

\* to_local: the wall-clock second of the local day and the zone name
to_local(dt_utc) ==
    LET off == IF ChicagoIsDst(dt_utc) THEN 18000 ELSE 21600
    IN  <<(dt_utc - off) % 86400, IF ChicagoIsDst(dt_utc) THEN "CDT" ELSE "CST">>

\* strftime("%-I:%M %p %Z"): 12-hour clock hour, minute, AM/PM, zone name
fmt_local_time(dt_utc) ==
    LET dt == to_local(dt_utc)
        h  == dt[1] \div 3600
        m  == (dt[1] % 3600) \div 60
    IN  <<IF h % 12 = 0 THEN 12 ELSE h % 12, m,
          IF h < 12 THEN "AM" ELSE "PM", dt[2]>>

fmt_in(delta_seconds) ==
    LET d == IF delta_seconds < 0 THEN 0 ELSE delta_seconds
        m == d \div 60
        h == m \div 60
    IN  IF h # 0 THEN <<"in", h, "h", m % 60, "m">> ELSE <<"in", m % 60, "m">>

\* datetime.isoformat() of a UTC instant: day, hour, minute, second
isoformat(t) == <<"iso", t \div 86400, (t % 86400) \div 3600, (t % 3600) \div 60, t % 60>>

---------------------------------------------------------------------------
(* Occurrence Extractor: extract_occurrences *)

ContainerKeys == <<"maps", "instances", "schedule", "timers", "occurrences">>

\* ev.get("name") or ev.get("event") or ev.get("title") or "Unknown Event"
EventName(ev) ==
    Or(Or(Or(Get(ev, "name"), Get(ev, "event")), Get(ev, "title")), Str("Unknown Event"))

\* the lists among the container keys, in key order
Candidates(ev) ==
    LET keys == SelectSeq(ContainerKeys, LAMBDA k : IsList(Get(ev, k)))
    IN  [i \in 1..Len(keys) |-> Get(ev, keys[i])[2]]

RECURSIVE Concat(_)
Concat(seqs) == IF seqs = <<>> THEN <<>> ELSE Head(seqs) \o Concat(Tail(seqs))

\* the dict items of the candidate containers, or the event itself when it
\* has no list under a container key
ScheduleItems(evv) ==
    LET cands == Candidates(evv[2])
        items == IF Len(cands) = 0 THEN <<evv>> ELSE Concat(cands)
    IN  SelectSeq(items, IsDict)

MapNameRaw(ev, item) ==
    LET m == Or(Or(Or(Or(Get(item, "mapName"), Get(item, "map")),
                      Get(item, "location")), Get(item, "zone")), Get(ev, "maps"))
    IN  IF IsDict(m) THEN Or(Get(m[2], "name"), Get(m[2], "id")) ELSE m

MapName(ev, item) ==
    LET m == MapNameRaw(ev, item)
    IN  IF Truthy(m) THEN PyStr(m) ELSE Str("Unknown Map")

\* active, else isActive, else currentlyActive; <<>> is None
ActiveFlag(item) ==
    LET a1 == Get(item, "active")
        a2 == IF IsNone(a1) THEN Get(item, "isActive") ELSE a1
        a3 == IF IsNone(a2) THEN Get(item, "currentlyActive") ELSE a2
    IN  IF IsNone(a3) THEN <<>> ELSE <<Truthy(a3)>>

\* parse_dt(item.get(k1)) or parse_dt(item.get(k2)) or ...: a datetime is
\* always true, so the first value that parses
FirstParsed(item, keys) ==
    LET ok == SelectSeq(keys, LAMBDA k : parse_dt(Get(item, k)) # <<>>)
    IN  IF Len(ok) = 0 THEN <<>> ELSE parse_dt(Get(item, ok[1]))

Occurrence(ev, itemv) ==
    [event  |-> PyStr(EventName(ev)),
     map    |-> MapName(ev, itemv[2]),
     active |-> ActiveFlag(itemv[2]),
     start  |-> FirstParsed(itemv[2], <<"start", "startAt", "startsAt", "nextStart">>),
     end    |-> FirstParsed(itemv[2], <<"end", "endAt", "endsAt", "nextEnd">>),
     raw    |-> itemv]

EventOccurrences(evv) ==
    IF ~IsDict(evv) THEN <<>>
    ELSE LET items == ScheduleItems(evv)
         IN  [i \in 1..Len(items) |-> Occurrence(evv[2], items[i])]

RECURSIVE AllOccurrences(_)
AllOccurrences(events) ==
    IF events = <<>> THEN <<>>
    ELSE EventOccurrences(Head(events)) \o AllOccurrences(Tail(events))

\* a key that leaves the end instant out
OccKeyWithoutEnd(o) ==
    <<o.event, o.map, IF o.start # <<>> THEN isoformat(o.start[1]) ELSE <<"None">>>>

OccKey(o) ==
    <<o.event, o.map,
      IF o.start # <<>> THEN isoformat(o.start[1]) ELSE <<"None">>,
      IF o.end # <<>> THEN isoformat(o.end[1]) ELSE <<"None">>>>

RECURSIVE Cleaned(_, _, _)
Cleaned(occs, seen, cleaned) ==
    IF occs = <<>> THEN cleaned
    ELSE LET o == Head(occs)
         IN  IF OccKey(o) \in seen
               THEN Cleaned(Tail(occs), seen, cleaned)
               ELSE Cleaned(Tail(occs), seen \cup {OccKey(o)}, Append(cleaned, o))

extract_occurrences(payload) ==
    IF ~IsList(payload) THEN <<>>
    ELSE Cleaned(AllOccurrences(payload[2]), {}, <<>>)

---------------------------------------------------------------------------
(* Digest Builder: build_digest *)

\* the rank 10**9 given to a current occurrence without end
NoEndRank == 1000000000

\* current[:10], upcoming[:10]
TopEntries == 10

\* the window test with the start instant excluded
IsCurrentStrict(o, now) ==
    \/ o.active = <<TRUE>>
    \/ o.start # <<>> /\ o.end # <<>> /\ o.start[1] < now /\ now <= o.end[1]

IsCurrent(o, now) ==
    \/ o.active = <<TRUE>>
    \/ o.start # <<>> /\ o.end # <<>> /\ o.start[1] <= now /\ now <= o.end[1]

IsUpcoming(o, now) ==
    ~IsCurrent(o, now) /\ o.start # <<>> /\ o.start[1] > now

\* the (ends_in, o) pairs appended to current, in encounter order
CurrentEntries(occurrences, now) ==
    LET cur == SelectSeq(occurrences, LAMBDA o : IsCurrent(o, now))
    IN  [i \in 1..Len(cur) |->
           <<IF cur[i].end # <<>> THEN cur[i].end[1] - now ELSE NoEndRank, cur[i]>>]

\* the (starts_in, o) pairs appended to upcoming, in encounter order
UpcomingEntries(occurrences, now) ==
    LET up == SelectSeq(occurrences, LAMBDA o : IsUpcoming(o, now))
    IN  [i \in 1..Len(up) |-> <<up[i].start[1] - now, up[i]>>]

\* list.sort(key=lambda x: x[0]): ascending by the first component, stable
InsertByKey(sorted, x) ==
    LET n == Cardinality({i \in 1..Len(sorted) : sorted[i][1] <= x[1]})
    IN  SubSeq(sorted, 1, n) \o <<x>> \o SubSeq(sorted, n + 1, Len(sorted))

RECURSIVE SortFrom(_, _)
SortFrom(entries, sorted) ==
    IF entries = <<>> THEN sorted
    ELSE SortFrom(Tail(entries), InsertByKey(sorted, Head(entries)))

SortByKey(entries) == SortFrom(entries, <<>>)

CurrentSorted(occurrences, now) == SortByKey(CurrentEntries(occurrences, now))

UpcomingSorted(occurrences, now) == SortByKey(UpcomingEntries(occurrences, now))

Top(entries) == SubSeq(entries, 1, IF Len(entries) < TopEntries THEN Len(entries) ELSE TopEntries)

CurrentLine(entry) ==
    LET o == entry[2]
    IN  IF o.end # <<>>
          THEN <<"-", o.event, o.map, "ends", fmt_local_time(o.end[1]), fmt_in(entry[1])>>
          ELSE <<"-", o.event, o.map, "active">>

UpcomingLine(entry) ==
    LET o == entry[2]
    IN  IF o.start # <<>>
          THEN <<"-", o.event, o.map, fmt_local_time(o.start[1]), fmt_in(entry[1])>>
          ELSE <<"-", o.event, o.map, "soon">>

CurrentSection(current) ==
    IF Len(current) = 0 THEN << <<"- (none)">> >>
    ELSE [i \in 1..Len(Top(current)) |-> CurrentLine(Top(current)[i])]

UpcomingSection(upcoming) ==
    IF Len(upcoming) = 0 THEN << <<"- (none)">> >>
    ELSE [i \in 1..Len(Top(upcoming)) |-> UpcomingLine(Top(upcoming)[i])]

\* the lines of the report; strip() removes nothing, the first and the last
\* line being non-blank
build_digest(occurrences, now) ==
    << <<"**events:**">>, <<"">>, <<"**current**">> >>
    \o CurrentSection(CurrentSorted(occurrences, now))
    \o << <<"">>, <<"**upcoming**">> >>
    \o UpcomingSection(UpcomingSorted(occurrences, now))

\* hashlib.sha256(text).hexdigest(): a function of the text, taken to be
\* free of collisions
sha256_hexdigest(text) == <<"sha256", text>>

---------------------------------------------------------------------------
(* Inputs *)

MaxItems == 2

MaxEvents == 1

MaxOccs == 2

SeqsUpTo(S, n) == UNION {[1..k -> S] : k \in 0..n}

ItemDam ==
    Dict([mapName |-> Str("Dam"), start |-> Str("1970-01-01T22:00:00Z"),
          end |-> Str("1970-01-02T00:30:00+01:00")])

\* the same event window as ItemDam, written with other fields
ItemDamAgain ==
    Dict([map |-> Str("Dam"), startAt |-> Num(79200),
          endsAt |-> Str(" 1970-01-01T23:30:00Z "), active |-> Bool(TRUE)])

ItemDamEmptyMapName ==
    Dict([mapName |-> Str(""), map |-> Str("Dam"), start |-> Str("1970-01-01T22:00:00"),
          end |-> Str("1970-01-02T01:00:00Z")])

ItemSpaceport ==
    Dict([location |-> Dict([name |-> Str("Spaceport")]), isActive |-> Bool(FALSE),
          start |-> Str("garbageZ"), nextStart |-> Num(90000)])

ItemZone == Dict([zone |-> Dict([id |-> Str("Z1")]), currentlyActive |-> Num(1)])

\* a schedule item with none of mapName, map, location, zone
ItemNoMap == Dict([active |-> Bool(TRUE), end |-> NumK(1000081901)])

ItemSet ==
    {ItemDam, ItemDamAgain, ItemDamEmptyMapName, ItemSpaceport, ItemZone, ItemNoMap,
     Str("not an object")}

EventSet ==
    {Dict([name |-> Str("Harvester"), maps |-> List(s)]) : s \in SeqsUpTo(ItemSet, MaxItems)}
    \cup {Dict([title |-> Str("Storm"), instances |-> List(s), schedule |-> Str("weekly"),
                timers |-> List(<<ItemZone>>)]) : s \in SeqsUpTo(ItemSet, 1)}
    \cup {Dict([name |-> Str("Scout"), active |-> Bool(TRUE)]),
          Dict([event |-> Str("Probe"), maps |-> Str("Dam"), nextStart |-> Num(90000)]),
          Dict([name |-> Str("Harvester"), map |-> Str("Dam"),
                times |-> List(<<Dict([start |-> Str("22:00"), end |-> Str("23:30")])>>)]),
          Num(7)}

\* the fixed daily schedule: {"data": [{name, map, times: [{start, end}]}]}
DailyPayload ==
    Dict([data |-> List(<<Dict([name |-> Str("Harvester"), map |-> Str("Dam"),
             times |-> List(<<Dict([start |-> Str("22:00"), end |-> Str("23:30")])>>)])>>)])

ExtractInputs ==
    {List(s) : s \in SeqsUpTo(EventSet, MaxEvents)} \cup {DailyPayload, Null}

---------------------------------------------------------------------------
(* extract_occurrences applied on its own *)

RunIdle ==
    /\ stateFile = <<"missing">>
    /\ digestPosts = <<>>
    /\ clock = 0
    /\ lastDigest = [outcome |-> "none"]
    /\ lastHarv = [outcome |-> "none"]
    /\ lastProc = "none"

InitExtract ==
    /\ RunIdle
    /\ arg \in ExtractInputs
    /\ res = <<>>
    /\ fn = "extract_occurrences"

ApplyExtract ==
    /\ fn = "extract_occurrences"
    /\ res' = extract_occurrences(arg)
    /\ fn' = "extracted"
    /\ UNCHANGED <<arg, runVars>>

NextExtract == ApplyExtract

SpecExtract == InitExtract /\ [][NextExtract]_vars

---------------------------------------------------------------------------
(* build_digest applied on its own *)

OccSet ==
    [event : {Str("Harvester")}, map : {Str("Dam")},
     active : {<<>>, <<TRUE>>, <<FALSE>>},
     start : {<<>>, <<79200>>, <<90000>>},
     end : {<<>>, <<84600>>, <<1000081901>>},
     raw : {Null}]

\* evaluation instants: the start of the 22:00-23:30 window, inside it, its
\* end, and after it
DigestNows == {79200, 81900, 84600, 84660}

InitDigest ==
    /\ RunIdle
    /\ arg \in SeqsUpTo(OccSet, MaxOccs) \X DigestNows
    /\ res = <<>>
    /\ fn = "build_digest"

ApplyDigest ==
    /\ fn = "build_digest"
    /\ res' = [current  |-> CurrentSorted(arg[1], arg[2]),
               upcoming |-> UpcomingSorted(arg[1], arg[2]),
               text     |-> build_digest(arg[1], arg[2])]
    /\ fn' = "built"
    /\ UNCHANGED <<arg, runVars>>

NextDigest == ApplyDigest

SpecDigest == InitDigest /\ [][NextDigest]_vars

---------------------------------------------------------------------------
(* The state file and the webhook *)

\* a load that always fails over to the empty record
load_state_always_empty(file) == <<>>

load_state(file) == IF file[1] = "dict" THEN file[2] ELSE <<>>

save_state(state) == <<"dict", state>>

\* requests.post(...): the POST succeeds, is answered with an error status,
\* or raises (no connection, timeout)
PostResults == {"ok", "http_error", "network_error"}

\* the POST without raise_for_status: an error status goes unnoticed
send_discord_unchecked(post) == IF post = "network_error" THEN "raised" ELSE "returned"

\* requests.post(...).raise_for_status(): raises unless the POST succeeded
send_discord(post) == IF post = "ok" THEN "returned" ELSE "raised"

\* harvester_check.send: requests.post(...) alone, the response not examined
send(post) == IF post = "network_error" THEN "raised" ELSE "returned"

---------------------------------------------------------------------------
(* event_digest.main *)

MaxPosts == 3

PayloadActive == List(<<Dict([name |-> Str("Harvester"), active |-> Bool(TRUE)])>>)

PayloadWindow ==
    List(<<Dict([name |-> Str("Harvester"), active |-> Bool(FALSE),
                 maps |-> List(<<ItemDam>>)])>>)

PayloadScout == List(<<Dict([name |-> Str("Scout"), active |-> Bool(TRUE)])>>)

\* what the API returns to harvester_check
RunPayloads == {PayloadActive, PayloadWindow, PayloadScout, DailyPayload}

\* what the API returns to event_digest
DigestPayloads == {PayloadActive, PayloadWindow, DailyPayload}

RunNows == {81900, 81930, 81959}

\* the comparison made against a key the state never holds
DigestChangedWrongKey(state, digest_hash) == Get(state, "digest_hash") # digest_hash

\* state.get("last_digest_hash") != digest_hash
DigestChanged(state, digest_hash) == Get(state, "last_digest_hash") # digest_hash

\* requests.get raises, raise_for_status raises or the body is no JSON
DigestFetchFail ==
    /\ fn = "idle"
    /\ lastDigest' = [outcome |-> "fetch_failed"]
    /\ lastProc' = "digest"
    /\ UNCHANGED <<stateFile, digestPosts, clock, lastHarv, arg, res, fn>>

\* main from the parsed payload on: now is what datetime.now returns, post
\* what the webhook does if the digest is posted
DigestMain(payload, now, post) ==
    LET occurrences == extract_occurrences(payload)
        digest      == build_digest(occurrences, now)
        state       == load_state(stateFile)
        digest_hash == sha256_hexdigest(digest)
        rerun       == /\ lastDigest.outcome \in {"notified", "suppressed"}
                       /\ lastDigest.payload = payload
                       /\ now > clock
        run(outcome, posted) == [outcome |-> outcome, payload |-> payload,
                                 digest |-> digest, hash |-> digest_hash,
                                 post |-> posted, rerun |-> rerun]
    IN  /\ fn = "idle"
        /\ Len(digestPosts) < MaxPosts   \* the bound on the webhook's messages
        /\ now >= clock
        /\ clock' = now
        /\ lastProc' = "digest"
        /\ IF DigestChanged(state, digest_hash)
             THEN IF send_discord(post) = "returned"
                    THEN /\ stateFile' = save_state(SetItem(state, "last_digest_hash", digest_hash))
                         /\ digestPosts' = IF post = "ok" THEN Append(digestPosts, digest)
                                                          ELSE digestPosts
                         /\ lastDigest' = run("notified", post)
                    ELSE /\ lastDigest' = run("send_failed", post)
                         /\ UNCHANGED <<stateFile, digestPosts>>
             ELSE /\ post = "ok"   \* nothing is posted: one value stands for all
                  /\ stateFile' = save_state(state)
                  /\ lastDigest' = run("suppressed", "not_posted")
                  /\ UNCHANGED digestPosts
        /\ UNCHANGED <<lastHarv, arg, res, fn>>

---------------------------------------------------------------------------
(* harvester_check.main *)

\* "harvester" in name.lower(), for the names of the model
ContainsHarvester(name) == name \in {"Harvester", "harvester", "Lush Harvester Bloom"}

\* next((e for e in data if "harvester" in e.get("name", "").lower()), None)
\* over a list: the first match, <<"none">> or, when an entry has no get or
\* its name has no lower, <<"raised">>
RECURSIVE FindInList(_)
FindInList(data) ==
    IF data = <<>> THEN <<"none">>
    ELSE LET e == Head(data)
         IN  IF ~IsDict(e) THEN <<"raised">>
             ELSE LET name == GetDefault(e[2], "name", Str(""))
                  IN  IF name[1] # "str" THEN <<"raised">>
                      ELSE IF ContainsHarvester(name[2]) THEN <<"found", e>>
                      ELSE FindInList(Tail(data))

\* a dict iterates over its keys, which are strings and have no get
FindHarvester(data) ==
    CASE data[1] = "list" -> FindInList(data[2])
      [] data[1] = "dict" -> IF DOMAIN data[2] = {} THEN <<"none">> ELSE <<"raised">>
      [] OTHER            -> <<"raised">>

\* the alert condition without the previous flag
ShouldAlertIgnoringLast(last, active) == active

\* not last and active
ShouldAlert(last, active) == ~Truthy(last) /\ active

HarvesterFetchFail ==
    /\ fn = "idle"
    /\ lastHarv' = [outcome |-> "fetch_failed"]
    /\ lastProc' = "harvester"
    /\ UNCHANGED <<stateFile, digestPosts, clock, lastDigest, arg, res, fn>>

HarvesterMain(data, post) ==
    LET harvester == FindHarvester(data)
        run(outcome, active, alert, posted) ==
            [outcome |-> outcome, found |-> harvester[1] = "found", active |-> active,
             alert |-> alert, post |-> posted]
    IN  /\ fn = "idle"
        /\ lastProc' = "harvester"
        /\ IF harvester[1] # "found"
             THEN /\ post = "ok"   \* nothing is posted: one value stands for all
                  /\ lastHarv' = run(IF harvester[1] = "none" THEN "not_found" ELSE "raised",
                                     FALSE, FALSE, "not_posted")
                  /\ UNCHANGED stateFile
             ELSE LET active == Truthy(GetDefault(harvester[2][2], "active", Bool(FALSE)))
                      state  == load_state(stateFile)
                      last   == GetDefault(state, "harvester_active", Bool(FALSE))
                      alert  == ShouldAlert(last, active)
                  IN  IF alert /\ send(post) = "raised"
                        THEN /\ lastHarv' = run("send_failed", active, TRUE, post)
                             /\ UNCHANGED stateFile
                        ELSE /\ alert \/ post = "ok"
                             /\ stateFile' = save_state(SetItem(state, "harvester_active", Bool(active)))
                             /\ lastHarv' = run("completed", active, alert,
                                                IF alert THEN post ELSE "not_posted")
        /\ UNCHANGED <<digestPosts, clock, lastDigest, arg, res, fn>>

---------------------------------------------------------------------------
(* Serialized runs of the two programs against one state file *)

Init ==
    /\ stateFile \in {<<"missing">>, <<"corrupt">>}
    /\ digestPosts = <<>>
    /\ clock = 0
    /\ lastDigest = [outcome |-> "none"]
    /\ lastHarv = [outcome |-> "none"]
    /\ lastProc = "none"
    /\ arg = <<>>
    /\ res = <<>>
    /\ fn = "idle"

Next ==
    \/ DigestFetchFail
    \/ \E payload \in DigestPayloads, now \in RunNows, post \in PostResults :
          DigestMain(payload, now, post)
    \/ HarvesterFetchFail
    \/ \E data \in RunPayloads, post \in PostResults : HarvesterMain(data, post)

Spec == Init /\ [][Next]_vars

---------------------------------------------------------------------------
(* Properties of extract_occurrences (SpecExtract) *)

\* the composite key: event name, map name, start instant or none, end
\* instant or none
ClaimKey(o) == <<o.event, o.map, o.start, o.end>>

\* the positions of the occurrences that are the first of their key
FirstOfKey(raw) ==
    {i \in 1..Len(raw) : \A j \in 1..(i - 1) : ClaimKey(raw[j]) # ClaimKey(raw[i])}

\* C6: the list returned by extract_occurrences holds no two occurrences
\* with the same key (event, map, start, end); it is the occurrences that
\* are the first of their key in encounter order, in that order.
C6_DedupKeepsFirstPerKey ==
    fn = "extracted" =>
      /\ \A i, j \in 1..Len(res) : i # j => ClaimKey(res[i]) # ClaimKey(res[j])
      /\ IsList(arg) =>
            LET raw == AllOccurrences(arg[2])
                F   == FirstOfKey(raw)
            IN  /\ Len(res) = Cardinality(F)
                /\ \A i \in F : res[Cardinality({j \in F : j <= i})] = raw[i]

\* a payload whose second item repeats the key of the first with another
\* active flag: the first is kept, the second dropped
C6_Witness ==
    /\ fn = "extracted"
    /\ IsList(arg)
    /\ Len(AllOccurrences(arg[2])) = 2
    /\ AllOccurrences(arg[2])[1] # AllOccurrences(arg[2])[2]
    /\ res = <<AllOccurrences(arg[2])[1]>>

MapKeys == {"mapName", "map", "location", "zone"}

\* C9: an occurrence whose schedule item has none of mapName, map,
\* location, zone has the map name "Unknown Map", whichever container the
\* item comes from.
C9_NoMapFieldIsUnknownMap ==
    fn = "extracted" =>
      \A i \in 1..Len(res) :
        DOMAIN res[i].raw[2] \cap MapKeys = {} => res[i].map = Str("Unknown Map")

---------------------------------------------------------------------------
(* Properties of build_digest (SpecDigest) *)

ClaimCurrent(o, now) ==
    \/ o.active = <<TRUE>>
    \/ o.start # <<>> /\ o.end # <<>> /\ o.start[1] <= now /\ now <= o.end[1]

ClaimUpcoming(o, now) == ~ClaimCurrent(o, now) /\ o.start # <<>> /\ o.start[1] > now

InBucket(bucket, o) == \E j \in 1..Len(bucket) : bucket[j][2] = o

\* C4: an occurrence is in the current bucket exactly when its active flag
\* is true or start <= now <= end with both present, in the upcoming bucket
\* exactly when it is not current and its start is present and after now,
\* and otherwise in neither; none is in both, and one with unknown active
\* flag and no start is in neither.
C4_Partition ==
    fn = "built" =>
      LET occs == arg[1]
          now  == arg[2]
          idx  == 1..Len(occs)
      IN  /\ \A i \in idx : InBucket(res.current, occs[i]) <=> ClaimCurrent(occs[i], now)
          /\ \A i \in idx : InBucket(res.upcoming, occs[i]) <=> ClaimUpcoming(occs[i], now)
          /\ Len(res.current) = Cardinality({i \in idx : ClaimCurrent(occs[i], now)})
          /\ Len(res.upcoming) = Cardinality({i \in idx : ClaimUpcoming(occs[i], now)})
          /\ \A i \in idx : ~(InBucket(res.current, occs[i]) /\ InBucket(res.upcoming, occs[i]))
          /\ \A i \in idx :
                occs[i].active = <<>> /\ occs[i].start = <<>> =>
                  ~InBucket(res.current, occs[i]) /\ ~InBucket(res.upcoming, occs[i])

\* at the start instant of its window an occurrence flagged inactive is
\* current, beside one that is upcoming
C4_Witness ==
    /\ fn = "built"
    /\ Len(arg[1]) = 2
    /\ Len(res.current) = 1
    /\ Len(res.upcoming) = 1
    /\ res.current[1][2].active = <<FALSE>>
    /\ res.current[1][2].start = <<arg[2]>>

\* C5: the current bucket is in ascending order of the time remaining
\* until end, and no occurrence without an end instant stands before one
\* that has an end instant.
C5_NoEndRanksLast ==
    fn = "built" =>
      \A i, j \in 1..Len(res.current) :
        i < j =>
          LET a == res.current[i][2]
              b == res.current[j][2]
          IN  /\ a.end # <<>> /\ b.end # <<>> => a.end[1] - arg[2] <= b.end[1] - arg[2]
              /\ ~(a.end = <<>> /\ b.end # <<>>)

---------------------------------------------------------------------------
(* Properties of the runs (Spec) *)

StoredHash(file) == Get(load_state(file), "last_digest_hash")

StoredHarvester(file) == Get(load_state(file), "harvester_active")

Completed(run) == run.outcome \in {"notified", "suppressed"}

DeliveryFailed(run) ==
    run.outcome \in {"notified", "send_failed"} /\ run.post \in {"http_error", "network_error"}

\* C1: a digest run whose fetch fails or whose webhook delivery fails
\* leaves the state file as it was, the stored hash still differing from
\* the report's, so that the next run with that report posts again; the
\* stored hash changes only in a digest run whose POST succeeded, and then
\* to the hash of that run's report.
C1_FailedRunKeepsState ==
    [][ /\ (lastProc' = "digest" /\ lastDigest'.outcome = "fetch_failed")
              => stateFile' = stateFile
        /\ (lastProc' = "digest" /\ DeliveryFailed(lastDigest'))
              => /\ stateFile' = stateFile
                 /\ StoredHash(stateFile') # lastDigest'.hash
                 /\ lastDigest'.outcome = "send_failed"
        /\ StoredHash(stateFile') # StoredHash(stateFile)
              => /\ lastProc' = "digest"
                 /\ lastDigest'.outcome = "notified"
                 /\ lastDigest'.post = "ok"
                 /\ StoredHash(stateFile') = lastDigest'.hash ]_vars

\* a delivery has failed after an earlier digest was stored: the earlier
\* hash is still the stored one
C1_Witness ==
    /\ lastProc = "digest"
    /\ lastDigest.outcome = "send_failed"
    /\ lastDigest.post = "http_error"
    /\ Len(digestPosts) > 0
    /\ StoredHash(stateFile) = sha256_hexdigest(digestPosts[Len(digestPosts)])

\* C2: a digest run that completes posts exactly when the hash of its report
\* differs from the stored last_digest_hash (none, for a missing or corrupt
\* file); a run that posts appends its report to the webhook's messages and
\* one that does not leaves them alone; afterwards the stored hash is the
\* hash of the run's report, which is the last report posted.
C2_NotifyIffHashDiffers ==
    [][ (lastProc' = "digest" /\ Completed(lastDigest')) =>
          /\ (lastDigest'.outcome = "notified") <=> (lastDigest'.hash # StoredHash(stateFile))
          /\ lastDigest'.outcome = "notified"
                => digestPosts' = Append(digestPosts, lastDigest'.digest)
          /\ lastDigest'.outcome = "suppressed" => digestPosts' = digestPosts
          /\ StoredHash(stateFile') = lastDigest'.hash
          /\ StoredHash(stateFile') = sha256_hexdigest(digestPosts'[Len(digestPosts')]) ]_vars

\* reports A, B, A over three runs, each posted
C2_Witness ==
    /\ lastProc = "digest"
    /\ lastDigest.outcome = "notified"
    /\ Len(digestPosts) = 3
    /\ digestPosts[1] # digestPosts[2]
    /\ digestPosts[3] = digestPosts[1]

\* C3 as stated: of two consecutive digest runs that complete with the same
\* payload, the second has the same hash as the first and posts nothing,
\* whatever its evaluation instant.
C3_SamePayloadSuppressed ==
    [][ ( /\ lastProc' = "digest"
          /\ Completed(lastDigest)
          /\ Completed(lastDigest')
          /\ lastDigest'.payload = lastDigest.payload )
        => /\ lastDigest'.hash = lastDigest.hash
           /\ lastDigest'.outcome = "suppressed" ]_vars

\* C3 amended: of two consecutive digest runs that complete with the same
\* payload and render the same report text, the second has the same hash
\* as the first and posts nothing; if the texts differ, so do the hashes
\* and the second run posts.
C3_SameReportSuppressed ==
    [][ ( /\ lastProc' = "digest"
          /\ Completed(lastDigest)
          /\ Completed(lastDigest')
          /\ lastDigest'.payload = lastDigest.payload )
        => IF lastDigest'.digest = lastDigest.digest
             THEN /\ lastDigest'.hash = lastDigest.hash
                  /\ lastDigest'.outcome = "suppressed"
                  /\ digestPosts' = digestPosts
             ELSE /\ lastDigest'.hash # lastDigest.hash
                  /\ lastDigest'.outcome = "notified" ]_vars

\* a second run at a later instant, with the same payload, whose report is
\* the same and is not posted
C3_Witness ==
    /\ lastProc = "digest"
    /\ lastDigest.outcome = "suppressed"
    /\ lastDigest.rerun
    /\ lastDigest.payload = PayloadWindow

\* C7: the daily-schedule payload with the window 22:00-23:30, evaluated
\* at 22:45 UTC, gives one current occurrence, Harvester at Dam, ending in
\* 45 minutes, and no upcoming one.
C7_DailyWindowIsCurrent ==
    ( /\ lastProc = "digest"
      /\ Completed(lastDigest)
      /\ lastDigest.payload = DailyPayload
      /\ clock = 81900 )
    => LET occurrences == extract_occurrences(lastDigest.payload)
           current     == CurrentSorted(occurrences, clock)
           upcoming    == UpcomingSorted(occurrences, clock)
       IN  /\ Len(current) = 1
           /\ Len(upcoming) = 0
           /\ current[1][2].event = Str("Harvester")
           /\ current[1][2].map = Str("Dam")
           /\ current[1][1] = 45 * 60
           /\ lastDigest.digest = build_digest(occurrences, clock)

\* C8: a digest run leaves the stored harvester_active as it was, and a
\* harvester run leaves the stored last_digest_hash as it was.
C8_OtherFieldPreserved ==
    [][ /\ lastProc' = "digest" => StoredHarvester(stateFile') = StoredHarvester(stateFile)
        /\ lastProc' = "harvester" => StoredHash(stateFile') = StoredHash(stateFile) ]_vars

\* both programs have written the file and both fields are in it
C8_Witness ==
    /\ lastDigest.outcome = "notified"
    /\ lastHarv.outcome = "completed"
    /\ lastProc = "digest"
    /\ StoredHarvester(stateFile) = Bool(TRUE)
    /\ StoredHash(stateFile) = lastDigest.hash

\* C10: a harvester run alerts exactly when it finds a harvester event
\* whose active flag is true while the stored harvester_active is false or
\* absent; a run that finds one and completes stores the observed flag; of
\* two consecutive completed runs that both observe it active at most one
\* alerts; a run that finds none alerts nothing and leaves the file alone.
C10_AlertOnRisingEdge ==
    [][ (lastProc' = "harvester" /\ lastHarv'.outcome # "fetch_failed") =>
          /\ lastHarv'.alert <=>
                /\ lastHarv'.found
                /\ lastHarv'.active
                /\ ~Truthy(GetDefault(load_state(stateFile), "harvester_active", Bool(FALSE)))
          /\ lastHarv'.outcome = "completed"
                => lastHarv'.found /\ StoredHarvester(stateFile') = Bool(lastHarv'.active)
          /\ ( /\ lastHarv.outcome = "completed"
                /\ lastHarv.active
                /\ lastHarv'.outcome = "completed"
                /\ lastHarv'.active )
                => ~(lastHarv.alert /\ lastHarv'.alert)
          /\ ~lastHarv'.found => ~lastHarv'.alert /\ stateFile' = stateFile ]_vars

\* a completed run that observes the harvester active and, the flag being
\* stored as true already, does not alert
C10_Witness ==
    /\ lastProc = "harvester"
    /\ lastHarv.outcome = "completed"
    /\ lastHarv.active
    /\ ~lastHarv.alert

=============================================================================
